---- MODULE Spec2Model ----
(***************************************************************************)
(* Model of the Flint package controller (lib/main.js): the connections   *)
(* map keyed by canonical project path, the did-add-project handler that  *)
(* resolves a path, checks the marker file and creates a Connection, the  *)
(* handlePaths batches and the text-editor bindings.                      *)
(*                                                                         *)
(* The JavaScript event loop is modelled as interleaving: one action per  *)
(* callback the host can run (a path-change event, the completion of one  *)
(* asynchronous step of one did-add-project promise, a text editor being  *)
(* opened or closed).  Promise reactions that run in the same microtask   *)
(* checkpoint as the completion that triggers them are part of the same   *)
(* action.                                                                 *)
(***************************************************************************)
EXTENDS Integers, Sequences, FiniteSets, TLC

\* ---------------------------------------------------------------- bounds
\* Number of handlePaths invocations explored (the one of activate included).
MaxBatches == 2
\* Number of did-add-project events explored, over all invocations.
MaxTasks == 3
\* Number of Connection objects Connection.create may hand out.
MaxConns == 2
\* Compiler messages delivered in one behaviour.
MaxMessages == 2

\* ------------------------------------------------------------ environment
\* Paths are strings, modelled as sequences of characters.
PathA == <<"/", "a">>
PathNested == <<"/", "a", "/", "b">>
PathLink == <<"/", "l">>
PathPlain == <<"/", "p">>
PathGone == <<"/", "g">>

\* The project folders the workspace can list.
ProjectPaths == {PathA, PathLink, PathPlain, PathGone}

\* Outcome of the helper realPath(path): the canonical path, or <<>> when the
\* returned promise rejects (the folder no longer exists).  PathLink is a
\* symbolic link to PathNested, a project folder inside PathA.
RealPathOf(path) ==
    IF path = PathGone THEN <<>>
    ELSE IF path = PathLink THEN PathNested
    ELSE path

\* Outcome of fileExists(<realPath>/.flint/.internal/state.json, false):
\* PathA and PathNested hold a marker file, PathPlain does not.
HasMarker(real) == real \in {PathA, PathNested}

\* The text editors the workspace can open, and textEditor.getPath().
Docs == {"d1", "d2"}
DocPath(d) ==
    IF d = "d1" THEN <<"/", "a", "/", "b", "/", "x">> ELSE <<"/", "a", "/", "x">>

\* ------------------------------------------------------------------ state
VARIABLES
    activated,     \* activate() has run
    pathsQueue,    \* state of the promise held by `let pathsQueue`
    projectPaths,  \* the paths array of the latest handlePaths call
    connections,   \* this.connections: sequence of [path, conn] in insertion order
    nextConn,      \* next Connection object Connection.create returns
    connPath,      \* connection.getPath() of every Connection created
    destroyed,     \* Connections on which destroy() was called
    linterConns,   \* Connections registered with this.linter
    nbatch,        \* number of handlePaths invocations so far
    batch,         \* per invocation: state of the promise handlePaths returned
    tasks,         \* per invocation and path: the promise pushed by the handler
    lateUnregister,\* Connections unregistered from the linter after their map entry went
    openDocs,      \* text editors open in the workspace
    observing,     \* the observeTextEditors callback is installed
    editors,       \* this.editors: text editor -> Connection of its Editor, or NoConn
    linterErrors,  \* the linter's diagnostics: triples <<Connection, file, diagnostic>>
    message,       \* the compiler message handled in this step: <<kind, Connection, payload>>
    calls,         \* the calls the message handler of this step made on its sinks
    nmsg           \* number of compiler messages delivered so far

vars == <<activated, pathsQueue, projectPaths, connections, nextConn, connPath,
          destroyed, linterConns, nbatch, batch, tasks, lateUnregister,
          openDocs, observing, editors, linterErrors, message, calls, nmsg>>

Batches == 1..MaxBatches
Conns == 1..MaxConns
NoConn == 0

NoTask == [stage |-> "none", promise |-> "none", logged |-> FALSE]
NoBatch == [promise |-> "none", logged |-> FALSE]

\* --------------------------------------------------------- Map operations
\* this.connections.has(path)
Has(m, path) == \E i \in 1..Len(m) : m[i].path = path

\* this.connections.keys()
Keys(m) == {m[i].path : i \in 1..Len(m)}

\* this.connections.values()
Values(m) == {m[i].conn : i \in 1..Len(m)}

\* this.connections.get(path)
Get(m, path) == m[CHOOSE i \in 1..Len(m) : m[i].path = path].conn

\* this.connections.set(path, conn): an existing key keeps its position
MapSet(m, path, c) ==
    IF Has(m, path)
    THEN [i \in 1..Len(m) |-> IF m[i].path = path THEN [path |-> path, conn |-> c] ELSE m[i]]
    ELSE Append(m, [path |-> path, conn |-> c])

\* this.connections.delete(path)
MapDelete(m, path) == SelectSeq(m, LAMBDA e : e.path # path)

\* ------------------------------------------------------ handleConnection
\* A did-destroy callback that leaves the linter registration in place.
OnDidDestroyKeepsLinter(linter, c) == linter

\* The callback handleConnection gives to connection.onDidDestroy.
OnDidDestroy(linter, c) == linter \ {c}

\* connection.destroy() as handlePaths sees it: the Connection is torn down
\* and its did-destroy callbacks run before destroy() returns.
Destroy(st, c) ==
    [st EXCEPT !.destroyed = @ \cup {c},
               !.linterConns = OnDidDestroy(@, c),
               !.lateUnregister =
                   IF c \in Values(st.connections) THEN @ ELSE @ \cup {c}]

\* handleConnection(path, connection): the map entry and the linter
\* registration (the message subscriptions change no state of this model).
HandleConnection(st, path, c) ==
    [st EXCEPT !.connections = MapSet(@, path, c),
               !.linterConns = @ \cup {c}]

\* ------------------------------------------------------------ handlePaths
\* The loop body without this.connections.delete(oldPath).
RemoveOneKeepsEntry(st, oldPath, paths) ==
    IF oldPath \notin paths
    THEN Destroy(st, Get(st.connections, oldPath))
    ELSE st

\* One iteration of the "Remove deleted ones" loop.
RemoveOne(st, oldPath, paths) ==
    IF oldPath \notin paths
    THEN LET oldConnection == Get(st.connections, oldPath)
             st1 == Destroy(st, oldConnection)
         IN [st1 EXCEPT !.connections = MapDelete(@, oldPath)]
    ELSE st

\* The "Remove deleted ones" loop over this.connections.keys().
RECURSIVE RemoveDeleted(_, _, _)
RemoveDeleted(st, keys, paths) ==
    IF keys = <<>> THEN st
    ELSE RemoveDeleted(RemoveOne(st, Head(keys).path, paths), Tail(keys), paths)

\* The "Add new ones" loop: the did-add-project handler pushes one promise
\* for every path that is no key of the map, and has called realPath(path).
AddNew(m, paths) ==
    [p \in ProjectPaths |->
        IF p \in paths /\ ~Has(m, p)
        THEN [stage |-> "realPath", promise |-> "pending", logged |-> FALSE]
        ELSE NoTask]

\* The paths whose promise is in the promises array.
Pushed(ts) == {p \in ProjectPaths : ts[p].stage # "none"}

\* Promise.all(promises): rejected as soon as one promise is rejected,
\* fulfilled once all are fulfilled.
PromiseAll(ts) ==
    LET pushed == Pushed(ts)
    IN IF \E p \in pushed : ts[p].promise = "rejected" THEN "rejected"
       ELSE IF \A p \in pushed : ts[p].promise = "fulfilled" THEN "fulfilled"
       ELSE "pending"

\* handlePaths returning Promise.all(promises) without the .catch.
CatchMissing(all) == [promise |-> all, logged |-> FALSE]

\* .catch(e => console.error(e)) applied to a promise in state `all`.
Catch(all) ==
    IF all = "rejected" THEN [promise |-> "fulfilled", logged |-> TRUE]
    ELSE [promise |-> all, logged |-> FALSE]

\* The promise handlePaths returned, after its promises changed to ts.
Returned(old, ts) == IF old.promise = "pending" THEN Catch(PromiseAll(ts)) ELSE old

\* --------------------------------------------------------------- editors
\* path.indexOf(rootPath) === 0
StartsWith(path, root) ==
    Len(root) <= Len(path) /\ SubSeq(path, 1, Len(root)) = root

\* getConnectionByPath without the indexOf test: the first Connection.
GetConnectionByPathAny(m, cp, path) ==
    IF m = <<>> THEN NoConn ELSE m[1].conn

\* getConnectionByPath(path): the first Connection, in map order, whose
\* getPath() starts the path; NoConn for null.
GetConnectionByPath(m, cp, path) ==
    LET hits == {i \in 1..Len(m) : StartsWith(path, cp[m[i].conn])}
    IN IF hits = {} THEN NoConn
       ELSE m[CHOOSE i \in hits : \A j \in hits : i <= j].conn

\* An observeTextEditors callback that never creates an Editor.
ObserveTextEditorNever(eds, m, cp, d) == eds

\* The observeTextEditors callback for one text editor.
ObserveTextEditor(eds, m, cp, d) ==
    LET connection == GetConnectionByPath(m, cp, DocPath(d))
    IN IF connection # NoConn THEN [eds EXCEPT ![d] = connection] ELSE eds

\* observeTextEditors(callback) calls the callback for every open editor.
RECURSIVE ObserveAll(_, _, _, _)
ObserveAll(eds, m, cp, ds) ==
    IF ds = {} THEN eds
    ELSE LET d == CHOOSE x \in ds : TRUE
         IN ObserveAll(ObserveTextEditor(eds, m, cp, d), m, cp, ds \ {d})

\* ------------------------------------------------ did-add-project handler
\* realPath(path).then(...): a rejection of realPath rejects the pushed
\* promise; otherwise fileExists(configPath, false) is called.
AfterRealPath(path) ==
    IF RealPathOf(path) = <<>>
    THEN [stage |-> "settled", promise |-> "rejected", logged |-> FALSE]
    ELSE [stage |-> "fileExists", promise |-> "pending", logged |-> FALSE]

\* The handler without the `if (exists)` test.
AfterFileExistsAlways(real) ==
    [stage |-> "create", promise |-> "pending", logged |-> FALSE]

\* .then(exists => { if (exists) return Connection.create(...) }): without
\* a marker file the pushed promise is fulfilled with undefined.
AfterFileExists(real) ==
    IF HasMarker(real)
    THEN [stage |-> "create", promise |-> "pending", logged |-> FALSE]
    ELSE [stage |-> "settled", promise |-> "fulfilled", logged |-> FALSE]

\* The fulfilment callback of Connection.create: handleConnection returned.
AfterCreateResolved == [stage |-> "settled", promise |-> "fulfilled", logged |-> FALSE]

\* Connection.create(...).then(onCreated) without the rejection callback.
AfterCreateRejectedUnhandled ==
    [stage |-> "settled", promise |-> "rejected", logged |-> FALSE]

\* The rejection callback of Connection.create: console.error, then the
\* pushed promise is fulfilled with undefined.
AfterCreateRejected == [stage |-> "settled", promise |-> "fulfilled", logged |-> TRUE]

\* ------------------------------------------------------------------ steps
State == [connections |-> connections, destroyed |-> destroyed,
          linterConns |-> linterConns, lateUnregister |-> lateUnregister]

Init ==
    /\ activated = FALSE
    /\ pathsQueue = "fulfilled"
    /\ projectPaths = {}
    /\ connections = <<>>
    /\ nextConn = 1
    /\ connPath = [c \in Conns |-> <<>>]
    /\ destroyed = {}
    /\ linterConns = {}
    /\ nbatch = 0
    /\ batch = [b \in Batches |-> NoBatch]
    /\ tasks = [b \in Batches |-> [p \in ProjectPaths |-> NoTask]]
    /\ lateUnregister = {}
    /\ openDocs = {}
    /\ observing = FALSE
    /\ editors = [d \in Docs |-> NoConn]
    /\ linterErrors = {}
    /\ message = <<>>
    /\ calls = <<>>
    /\ nmsg = 0

\* A step in which no compiler message is handled.
NoMessage ==
    /\ message' = <<>>
    /\ calls' = <<>>
    /\ UNCHANGED <<linterErrors, nmsg>>

\* The .then callback of activate() on the first handlePaths promise: once
\* that promise is fulfilled the text editors are observed.
Observe ==
    /\ observing' = (observing \/ batch'[1].promise = "fulfilled")
    /\ editors' = IF ~observing /\ observing'
                  THEN ObserveAll(editors, connections', connPath', openDocs)
                  ELSE editors

\* Number of did-add-project events so far.
Emitted == Cardinality({x \in Batches \X ProjectPaths : tasks[x[1]][x[2]].stage # "none"})

\* handlePaths(paths), as invocation number b.
HandlePaths(b, paths) ==
    LET st == RemoveDeleted(State, connections, paths)
        ts == AddNew(connections, paths)
    IN /\ Emitted + Cardinality(Pushed(ts)) <= MaxTasks
       /\ nbatch' = b
       /\ projectPaths' = paths
       /\ tasks' = [tasks EXCEPT ![b] = ts]
       /\ batch' = [batch EXCEPT ![b] = Catch(PromiseAll(ts))]
       /\ connections' = st.connections
       /\ destroyed' = st.destroyed
       /\ linterConns' = st.linterConns
       /\ lateUnregister' = st.lateUnregister
       /\ UNCHANGED <<nextConn, connPath, openDocs, pathsQueue>>
       /\ NoMessage
       /\ Observe

\* activate(): the handlers are installed and handlePaths runs on
\* atom.project.getPaths().
Activate(paths) ==
    /\ ~activated
    /\ activated' = TRUE
    /\ HandlePaths(1, paths)

\* atom.project.onDidChangePaths: pathsQueue.then(() => handlePaths(paths)).
\* pathsQueue is never reassigned, so the callback runs in the microtask
\* checkpoint of the event.
DidChangePaths(paths) ==
    /\ activated
    /\ nbatch < MaxBatches
    /\ paths # projectPaths
    /\ pathsQueue = "fulfilled"
    /\ UNCHANGED activated
    /\ HandlePaths(nbatch + 1, paths)

\* One pushed promise moves on; the promise handlePaths returned follows.
TaskStep(b, p, t) ==
    /\ tasks' = [tasks EXCEPT ![b][p] = t]
    /\ batch' = [batch EXCEPT ![b] = Returned(@, tasks'[b])]
    /\ UNCHANGED <<activated, pathsQueue, projectPaths, nbatch, openDocs>>
    /\ NoMessage
    /\ Observe

\* realPath(path) settles.
RealPathDone(b, p) ==
    /\ tasks[b][p].stage = "realPath"
    /\ UNCHANGED <<connections, nextConn, connPath, destroyed, linterConns,
                   lateUnregister>>
    /\ TaskStep(b, p, AfterRealPath(p))

\* fileExists(configPath, false) settles.
FileExistsDone(b, p) ==
    /\ tasks[b][p].stage = "fileExists"
    /\ UNCHANGED <<connections, nextConn, connPath, destroyed, linterConns,
                   lateUnregister>>
    /\ TaskStep(b, p, AfterFileExists(RealPathOf(p)))

\* Connection.create(realPath, configPath) is fulfilled with a Connection.
CreateResolved(b, p) ==
    /\ tasks[b][p].stage = "create"
    /\ nextConn <= MaxConns
    /\ LET st == HandleConnection(State, RealPathOf(p), nextConn)
       IN /\ connections' = st.connections
          /\ linterConns' = st.linterConns
    /\ connPath' = [connPath EXCEPT ![nextConn] = RealPathOf(p)]
    /\ nextConn' = nextConn + 1
    /\ UNCHANGED <<destroyed, lateUnregister>>
    /\ TaskStep(b, p, AfterCreateResolved)

\* Connection.create(realPath, configPath) is rejected.
CreateRejected(b, p) ==
    /\ tasks[b][p].stage = "create"
    /\ UNCHANGED <<connections, nextConn, connPath, destroyed, linterConns,
                   lateUnregister>>
    /\ TaskStep(b, p, AfterCreateRejected)

\* A text editor is opened: the observeTextEditors callback runs on it.
OpenDocument(d) ==
    /\ d \notin openDocs
    /\ openDocs' = openDocs \cup {d}
    /\ editors' = IF observing
                  THEN ObserveTextEditor(editors, connections, connPath, d)
                  ELSE editors
    /\ UNCHANGED <<activated, pathsQueue, projectPaths, connections, nextConn,
                   connPath, destroyed, linterConns, nbatch, batch, tasks,
                   lateUnregister, observing>>
    /\ NoMessage

\* The onDidDestroy callback calling this.editors.clear().
EditorsClear(eds, d) == [x \in Docs |-> NoConn]

\* this.editors.delete(textEditor)
EditorsDelete(eds, d) == [eds EXCEPT ![d] = NoConn]

\* A text editor is closed: the onDidDestroy callback of its Editor runs.
CloseDocument(d) ==
    /\ d \in openDocs
    /\ openDocs' = openDocs \ {d}
    /\ editors' = EditorsDelete(editors, d)
    /\ UNCHANGED <<activated, pathsQueue, projectPaths, connections, nextConn,
                   connPath, destroyed, linterConns, nbatch, batch, tasks,
                   lateUnregister, observing>>
    /\ NoMessage

\* ------------------------------------------------------ compiler messages
\* File names carried by compile:error and compile:success messages.
FileNames == {"a.js", "b.js"}

\* error.loc: <<>> when the field is undefined, else <<line, column>> (1-based).
Locs == {<<>>, <<5, 3>>, <<1, 1>>}

\* The error descriptors of compile:error messages.
Errors == [message : {"boom"}, stack : {"trace"}, fileName : FileNames, loc : Locs]

\* Relative file references of file:meta messages, as "/"-separated tokens.
RelFiles == {<<"x">>, <<"b", "/", "x">>, <<"..", "/", "x">>}

\* View metadata of file:meta messages.
Views == {"v1", "v2"}

\* null, and a value that is present.
Null == <<>>
Some(x) == <<x>>

\* helpers.getMessage(error): the text of the diagnostic.
GetMessage(error) == <<"msg", error.message>>

\* linter.setError(connection, filePath, diagnostic): the diagnostic kept for
\* (connection, filePath) is replaced, or dropped when diagnostic is null.
SetError(le, c, filePath, diagnostic) ==
    {t \in le : ~(t[1] = c /\ t[2] = filePath)}
        \cup (IF diagnostic = Null THEN {} ELSE {<<c, filePath, diagnostic[1]>>})

\* connection.getBaseDir()
GetBaseDir(cp, c) == cp[c]

\* path.join normalizes the joined path: a ".." segment removes the segment
\* before it.
RECURSIVE Normalize(_, _)
Normalize(done, rest) ==
    IF Len(rest) < 2 THEN done
    ELSE IF rest[2] = ".."
         THEN Normalize(SubSeq(done, 1, Len(done) - 2), SubSeq(rest, 3, Len(rest)))
         ELSE Normalize(done \o SubSeq(rest, 1, 2), SubSeq(rest, 3, Len(rest)))

\* joinPath(base, file)
JoinPath(base, file) == Normalize(<<>>, base \o <<"/">> \o file)

\* getEditorByPath(path): the text editor whose Editor is returned, or none.
GetEditorByPath(eds, path) ==
    LET hits == {d \in Docs : eds[d] # NoConn /\ DocPath(d) = path}
    IN IF hits = {} THEN Null ELSE Some(CHOOSE d \in hits : TRUE)

\* A range that keeps the 1-based line and column.
RangeOneBased(loc) == <<<<loc[1], loc[2]>>, <<loc[1], loc[2] + 1>>>>

\* The range of the diagnostic of an error at 1-based loc = <<line, column>>.
Range(loc) == <<<<loc[1] - 1, loc[2] - 1>>, <<loc[1] - 1, loc[2]>>>>

\* The diagnostic passed to linter.setError for a located error.
Diagnostic(error) ==
    [type |-> "Error",
     text |-> GetMessage(error),
     filePath |-> error.fileName,
     range |-> Range(error.loc)]

\* A compile:error handler that reports nothing for an error without loc.
OnCompileErrorSilent(le, c, error) ==
    IF error.loc = <<>>
    THEN [linterErrors |-> le, calls |-> <<>>]
    ELSE [linterErrors |-> SetError(le, c, error.fileName, Some(Diagnostic(error))),
          calls |-> <<[fn |-> "setError",
                       args |-> <<c, error.fileName, Some(Diagnostic(error))>>]>>]

\* The compile:error handler of connection c.
OnCompileError(le, c, error) ==
    IF error.loc = <<>>
    THEN [linterErrors |-> le,
          calls |-> <<[fn |-> "showError",
                       args |-> <<<<"[Compiler-Error] ", error.message>>, error.stack>>]>>]
    ELSE [linterErrors |-> SetError(le, c, error.fileName, Some(Diagnostic(error))),
          calls |-> <<[fn |-> "setError",
                       args |-> <<c, error.fileName, Some(Diagnostic(error))>>]>>]

\* A file:meta handler that looks up message.file without joining it to the
\* base directory.
OnFileMetaNoJoin(eds, cp, c, file, views) ==
    LET textEditor == GetEditorByPath(eds, file)
    IN IF textEditor # Null
       THEN <<[fn |-> "updateMeta", args |-> <<textEditor[1], views>>]>>
       ELSE <<>>

\* The file:meta handler of connection c: the calls it makes.
OnFileMeta(eds, cp, c, file, views) ==
    LET filePath == JoinPath(GetBaseDir(cp, c), file)
        textEditor == GetEditorByPath(eds, filePath)
    IN IF textEditor # Null
       THEN <<[fn |-> "updateMeta", args |-> <<textEditor[1], views>>]>>
       ELSE <<>>

\* A compile:success handler that leaves the linter alone.
OnCompileSuccessKeeps(le, c, path) ==
    [linterErrors |-> le, calls |-> <<>>]

\* The compile:success handler of connection c.
OnCompileSuccess(le, c, path) ==
    [linterErrors |-> SetError(le, c, path, Null),
     calls |-> <<[fn |-> "setError", args |-> <<c, path, Null>>]>>]

\* What a message step leaves alone.
MessageFrame ==
    UNCHANGED <<activated, pathsQueue, projectPaths, connections, nextConn,
                connPath, destroyed, linterConns, nbatch, batch, tasks,
                lateUnregister, openDocs, observing, editors>>

\* Connection c, on which handleConnection subscribed, emits compile:error.
CompileError(c, error) ==
    /\ nmsg < MaxMessages
    /\ c \in linterConns
    /\ LET r == OnCompileError(linterErrors, c, error)
       IN /\ linterErrors' = r.linterErrors
          /\ calls' = r.calls
    /\ message' = <<"compile:error", c, error>>
    /\ nmsg' = nmsg + 1
    /\ MessageFrame

\* Connection c emits file:meta.
FileMeta(c, file, views) ==
    /\ nmsg < MaxMessages
    /\ c \in linterConns
    /\ calls' = OnFileMeta(editors, connPath, c, file, views)
    /\ message' = <<"file:meta", c, [file |-> file, views |-> views]>>
    /\ nmsg' = nmsg + 1
    /\ UNCHANGED linterErrors
    /\ MessageFrame

\* Connection c emits compile:success.
CompileSuccess(c, path) ==
    /\ nmsg < MaxMessages
    /\ c \in linterConns
    /\ LET r == OnCompileSuccess(linterErrors, c, path)
       IN /\ linterErrors' = r.linterErrors
          /\ calls' = r.calls
    /\ message' = <<"compile:success", c, path>>
    /\ nmsg' = nmsg + 1
    /\ MessageFrame

Next ==
    \/ \E paths \in SUBSET ProjectPaths : Activate(paths)
    \/ \E paths \in SUBSET ProjectPaths : DidChangePaths(paths)
    \/ \E b \in Batches, p \in ProjectPaths : RealPathDone(b, p)
    \/ \E b \in Batches, p \in ProjectPaths : FileExistsDone(b, p)
    \/ \E b \in Batches, p \in ProjectPaths : CreateResolved(b, p)
    \/ \E b \in Batches, p \in ProjectPaths : CreateRejected(b, p)
    \/ \E d \in Docs : OpenDocument(d)
    \/ \E d \in Docs : CloseDocument(d)

Spec == Init /\ [][Next]_vars

\* The package with a fixed set of project folders, its Connections emitting
\* compiler messages.
MessageNext ==
    \/ \E paths \in SUBSET ProjectPaths : Activate(paths)
    \/ \E p \in ProjectPaths : RealPathDone(1, p)
    \/ \E p \in ProjectPaths : FileExistsDone(1, p)
    \/ \E p \in ProjectPaths : CreateResolved(1, p)
    \/ \E p \in ProjectPaths : CreateRejected(1, p)
    \/ \E d \in Docs : OpenDocument(d)
    \/ \E d \in Docs : CloseDocument(d)
    \/ \E c \in Conns, error \in Errors : CompileError(c, error)
    \/ \E c \in Conns, file \in RelFiles, views \in Views : FileMeta(c, file, views)
    \/ \E c \in Conns, path \in FileNames : CompileSuccess(c, path)

SpecMessages == Init /\ [][MessageNext]_vars

\* ----------------------------------------------------------- vocabulary
\* Connections Connection.create has returned.
Created == 1..(nextConn - 1)

\* Connections created and not destroyed.
Live == Created \ destroyed

\* The pushed promises still pending.
Pending(b) == {p \in ProjectPaths : tasks[b][p].promise = "pending"}

\* No handlePaths promise and no pushed promise is pending.
Quiescent ==
    /\ activated
    /\ \A b \in Batches : batch[b].promise # "pending" /\ Pending(b) = {}

\* The invocation that pushed the most recent promise for a path.
LastPushed(p) ==
    LET bs == {b \in Batches : tasks[b][p].stage # "none"}
    IN IF bs = {} THEN 0 ELSE CHOOSE b \in bs : \A a \in bs : a <= b

\* The canonical paths of the latest update that hold a marker file and
\* whose latest Connection.create was not rejected.
Expected ==
    {RealPathOf(p) : p \in {q \in projectPaths :
        /\ RealPathOf(q) # <<>>
        /\ HasMarker(RealPathOf(q))
        /\ (LastPushed(q) # 0 => ~tasks[LastPushed(q)][q].logged)}}

\* ----------------------------------------------------------------- claims
\* C1: an invocation of handlePaths starts (its promise comes into being)
\* only when the promise of every earlier invocation is settled and every
\* promise pushed during it is settled.
C1_BatchesSerialized ==
    [][\A b \in Batches :
          (batch[b].promise = "none" /\ batch'[b].promise # "none")
          => \A a \in 1..(b - 1) :
                 batch[a].promise = "fulfilled" /\ Pending(a) = {}]_vars

\* C2: once nothing is pending, the keys of the connections map are exactly
\* the canonical paths of the latest update that hold a marker file and
\* whose connection was established.
C2_KeysConverge == Quiescent => Keys(connections) = Expected

\* C3: no two live Connections have the same canonical project path.
C3_OneLiveConnectionPerPath ==
    \A c1 \in Live, c2 \in Live : connPath[c1] = connPath[c2] => c1 = c2

\* C5: no destroyed Connection is registered with the linter, and every
\* unregistration ran while the Connection was still a value of the map.
C5_DestroyedUnregistered ==
    /\ linterConns \cap destroyed = {}
    /\ lateUnregister = {}

\* C5 witness: a Connection that was registered has been destroyed by a
\* later handlePaths.
C5_Witness == destroyed # {} /\ nbatch >= 2

\* C6: the promise handlePaths returned is fulfilled only when every
\* promise pushed during that invocation is settled.
C6_ResolvesAfterAllSettled ==
    \A b \in Batches : batch[b].promise = "fulfilled" => Pending(b) = {}

\* C7: the promise handlePaths returned is never rejected; when a pushed
\* promise is rejected the rejection is logged and the promise fulfilled.
C7_NeverRejects ==
    \A b \in Batches :
        /\ batch[b].promise # "rejected"
        /\ (\E p \in ProjectPaths : tasks[b][p].promise = "rejected")
               => (batch[b].promise = "fulfilled" /\ batch[b].logged)

\* C7 witness: an invocation in which realPath was rejected for one path
\* and Connection.create for another.
C7_Witness ==
    \E b \in Batches :
        /\ batch[b].promise = "fulfilled"
        /\ \E p \in ProjectPaths : tasks[b][p].promise = "rejected"
        /\ \E p \in ProjectPaths : tasks[b][p].logged

\* C8: a step in which Connection.create settles without handing out a
\* Connection logs the failure, fulfils the pushed promise and leaves the
\* connections map and the linter registrations as they were.
C8_CreateFailureSwallowed ==
    [][\A b \in Batches, p \in ProjectPaths :
          (/\ tasks[b][p].stage = "create"
           /\ tasks'[b][p].stage # "create"
           /\ nextConn' = nextConn)
          => /\ tasks'[b][p].logged
             /\ tasks'[b][p].promise = "fulfilled"
             /\ connections' = connections
             /\ linterConns' = linterConns]_vars

\* C8 witness: Connection.create was rejected for a path with a marker file.
C8_Witness ==
    \E b \in Batches, p \in ProjectPaths :
        /\ HasMarker(RealPathOf(p))
        /\ tasks[b][p].stage = "settled"
        /\ tasks[b][p].logged

\* C9: for a path without a marker file, the step that ends the marker
\* check fulfils the pushed promise without calling Connection.create and
\* leaves the connections map and the linter registrations as they were.
C9_NoMarkerNoConnection ==
    [][\A b \in Batches, p \in ProjectPaths :
          (/\ tasks[b][p].stage = "fileExists"
           /\ tasks'[b][p].stage # "fileExists"
           /\ ~HasMarker(RealPathOf(p)))
          => /\ tasks'[b][p].stage = "settled"
             /\ tasks'[b][p].promise = "fulfilled"
             /\ ~tasks'[b][p].logged
             /\ connections' = connections
             /\ linterConns' = linterConns
             /\ nextConn' = nextConn]_vars

\* C9 witness: the promise of the path without a marker file is fulfilled.
C9_Witness ==
    \E b \in Batches :
        /\ tasks[b][PathPlain].stage = "settled"
        /\ tasks[b][PathPlain].promise = "fulfilled"

\* The Connections of the map whose getPath() starts the path of d.
Matching(m, cp, d) == {c \in Values(m) : StartsWith(DocPath(d), cp[c])}

\* C10: a text editor that becomes bound is bound to a Connection of the
\* connections map whose root path starts the editor's path; an editor
\* opened while no Connection of the map matches leaves this.editors as it
\* was.
C10_BindingByPrefix ==
    [][\A d \in Docs :
          /\ (editors'[d] # NoConn /\ editors'[d] # editors[d])
                 => editors'[d] \in Matching(connections', connPath', d)
          /\ (/\ d \notin openDocs
              /\ d \in openDocs'
              /\ Matching(connections', connPath', d) = {})
                 => editors' = editors]_vars

\* C10 witness: one editor is bound to a Connection of the map, another one
\* is open and observed while no Connection of the map matches it.
C10_Witness ==
    /\ editors["d1"] \in Values(connections)
    /\ observing
    /\ "d2" \in openDocs
    /\ editors["d2"] = NoConn
    /\ Matching(connections, connPath, "d2") = {}

\* C11: closing a text editor removes its entry of this.editors and no
\* other one; the connections map is left as it was and no Connection is
\* destroyed or unregistered.
C11_CloseRemovesOneBinding ==
    [][\A d \in Docs :
          (d \in openDocs /\ d \notin openDocs')
          => /\ editors'[d] = NoConn
             /\ \A e \in Docs \ {d} : editors'[e] = editors[e]
             /\ connections' = connections
             /\ destroyed' = destroyed
             /\ linterConns' = linterConns]_vars

\* C11 witness: both text editors are bound, so that closing either one
\* has another binding to keep.
C11_Witness ==
    /\ Docs \subseteq openDocs
    /\ \A d \in Docs : editors[d] \in Values(connections)

\* The canonical paths of the folders of the latest update.
LatestRealPaths == {RealPathOf(p) : p \in projectPaths}

\* C12: a file:meta message on a Connection makes exactly one updateMeta
\* call, carrying the views of the message, on the Editor of the bound text
\* editor whose path is the join of the Connection's base directory and
\* message.file; when no bound text editor has that path no call is made;
\* in both cases the editors, the connections and the linter are unchanged.
C12_FileMetaForwarded ==
    [][(message' # <<>> /\ message'[1] = "file:meta")
       => LET c == message'[2]
              file == message'[3].file
              views == message'[3].views
              targets == {d \in Docs : /\ editors[d] # NoConn
                                       /\ DocPath(d) = JoinPath(connPath[c], file)}
          IN /\ targets = {} => calls' = <<>>
             /\ targets # {} =>
                    \E d \in targets :
                        calls' = <<[fn |-> "updateMeta", args |-> <<d, views>>]>>
             /\ UNCHANGED <<editors, openDocs, connections, destroyed,
                            linterConns, linterErrors>>]_vars

\* C12 witness: a file:meta message of one Connection was forwarded to the
\* Editor of a text editor that is bound to another Connection.
C12_Witness ==
    /\ message # <<>>
    /\ message[1] = "file:meta"
    /\ calls # <<>>
    /\ calls[1].args[2] = message[3].views
    /\ editors[calls[1].args[1]] # message[2]

\* C13: a compile:error message whose error has no loc makes exactly one
\* call, showError with the error's message and stack, and leaves the
\* diagnostics of the linter as they were.
C13_NoLocNotified ==
    [][(message' # <<>> /\ message'[1] = "compile:error" /\ message'[3].loc = <<>>)
       => LET error == message'[3]
          IN /\ Len(calls') = 1
             /\ calls'[1].fn = "showError"
             /\ calls'[1].args = <<<<"[Compiler-Error] ", error.message>>, error.stack>>
             /\ linterErrors' = linterErrors]_vars

\* C13 witness: an error without loc was notified while the linter holds a
\* diagnostic of an earlier, located error.
C13_Witness ==
    /\ message # <<>>
    /\ message[1] = "compile:error"
    /\ message[3].loc = <<>>
    /\ Len(calls) = 1
    /\ calls[1].fn = "showError"
    /\ linterErrors # {}

\* C14: a compile:error message with loc = <<line, column>> on file f makes
\* exactly one call, setError for (connection, f), with a diagnostic of type
\* Error, filePath f and range <<<<line-1, column-1>>, <<line-1, column>>>>,
\* which is <<<<4, 2>>, <<4, 3>>>> for loc = <<5, 3>>; afterwards it is the
\* diagnostic the linter holds for (connection, f).
C14_LocatedDiagnostic ==
    [][(message' # <<>> /\ message'[1] = "compile:error" /\ message'[3].loc # <<>>)
       => LET c == message'[2]
              f == message'[3].fileName
              line == message'[3].loc[1]
              column == message'[3].loc[2]
          IN /\ Len(calls') = 1
             /\ calls'[1].fn = "setError"
             /\ calls'[1].args[1] = c
             /\ calls'[1].args[2] = f
             /\ calls'[1].args[3] # Null
             /\ LET diagnostic == calls'[1].args[3][1]
                IN /\ diagnostic.type = "Error"
                   /\ diagnostic.filePath = f
                   /\ diagnostic.range
                        = <<<<line - 1, column - 1>>, <<line - 1, column>>>>
                   /\ (line = 5 /\ column = 3)
                        => diagnostic.range = <<<<4, 2>>, <<4, 3>>>>
                   /\ {t \in linterErrors' : t[1] = c /\ t[2] = f}
                        = {<<c, f, diagnostic>>}]_vars

\* C14 witness: the error at line 5, column 3 left a diagnostic of range
\* <<<<4, 2>>, <<4, 3>>>> for its Connection and file.
C14_Witness ==
    /\ message # <<>>
    /\ message[1] = "compile:error"
    /\ message[3].loc = <<5, 3>>
    /\ \E t \in linterErrors :
          /\ t[1] = message[2]
          /\ t[2] = message[3].fileName
          /\ t[3].range = <<<<4, 2>>, <<4, 3>>>>

\* C15: after a compile:success message for path p on Connection c the
\* linter holds no diagnostic for (c, p), the diagnostics of every other
\* pair are as before, and if it held none for (c, p) its diagnostics are
\* unchanged.
C15_SuccessClears ==
    [][(message' # <<>> /\ message'[1] = "compile:success")
       => LET c == message'[2]
              p == message'[3]
              Other(le) == {t \in le : ~(t[1] = c /\ t[2] = p)}
          IN /\ calls' = <<[fn |-> "setError", args |-> <<c, p, Null>>]>>
             /\ Other(linterErrors') = linterErrors'
             /\ Other(linterErrors') = Other(linterErrors)
             /\ Other(linterErrors) = linterErrors
                    => linterErrors' = linterErrors]_vars

\* C15 witness: after compile:success for one file the linter still holds
\* the diagnostic of another file of the same Connection.
C15_Witness ==
    /\ message # <<>>
    /\ message[1] = "compile:success"
    /\ \E t \in linterErrors : t[1] = message[2] /\ t[2] # message[3]

\* C16: once nothing is pending, so that only a further path change could
\* act, every Connection created for a path that is no longer among the
\* folders of the workspace has been destroyed and is no value of the map.
C16_RemovedWhilePendingIsDestroyed ==
    Quiescent =>
        \A c \in Created :
            connPath[c] \notin LatestRealPaths
                => (c \in destroyed /\ c \notin Values(connections))

\* C17: a handlePaths step destroys and deletes every entry whose key is
\* not among the new paths, and leaves every entry whose key is among them
\* mapped to the same Connection, not destroyed.
C17_RemovalsSynchronous ==
    [][nbatch' # nbatch =>
          \A i \in 1..Len(connections) :
              LET k == connections[i].path
                  c == connections[i].conn
              IN IF k \notin projectPaths'
                 THEN c \in destroyed' /\ ~Has(connections', k)
                 ELSE /\ Has(connections', k)
                      /\ Get(connections', k) = c
                      /\ c \notin destroyed']_vars

\* C17 witness: the second handlePaths, called with PathA alone, pushed no
\* promise (PathA was a key and kept its Connection) and destroyed the
\* Connection of PathNested.
C17_Witness ==
    /\ nbatch = 2
    /\ projectPaths = {PathA}
    /\ Pushed(tasks[2]) = {}
    /\ \E c \in destroyed : connPath[c] = PathNested
    /\ Has(connections, PathA)
    /\ Get(connections, PathA) \notin destroyed

\* C18: every Connection created and not destroyed is a value of the map.
C18_NoLeakedConnection == Live \subseteq Values(connections)

\* C19: every Editor of this.editors holds a Connection that is a value of
\* the connections map and is not destroyed.
C19_BindingsLive ==
    \A d \in Docs :
        editors[d] # NoConn
            => (editors[d] \in Values(connections) /\ editors[d] \notin destroyed)

\* C20 as stated: once nothing is pending and the editors are observed,
\* every open text editor that some Connection of the map matches is bound.
C20_EventuallyBound ==
    (Quiescent /\ observing) =>
        \A d \in openDocs :
            Matching(connections, connPath, d) # {} => editors[d] # NoConn

\* C20 as amended: a text editor becomes bound only in the step that opens
\* it or in the step that starts the observation, and in such a step it is
\* bound whenever a Connection of the map matches it; the registration of
\* a Connection binds no editor that is already observed.
C20_BoundOnlyWhenObserved ==
    [][\A d \in Docs :
          LET opened == d \notin openDocs /\ d \in openDocs' /\ observing
              started == ~observing /\ observing' /\ d \in openDocs
          IN /\ (editors[d] = NoConn /\ editors'[d] # NoConn)
                    => (opened \/ started)
             /\ ((opened \/ started)
                 /\ Matching(connections', connPath', d) # {})
                    => editors'[d] # NoConn]_vars

\* C20 witness: an observed text editor, opened before the matching
\* Connection was registered, is still unbound when nothing is pending.
C20_Witness ==
    /\ Quiescent
    /\ observing
    /\ \E d \in openDocs :
           /\ Matching(connections, connPath, d) # {}
           /\ editors[d] = NoConn

====
